---- MODULE Spec2Model ----
(***************************************************************************)
(* Model of the SNMP MAC -> switch-port resolver snmp_mac_to_port of       *)
(* src/frontend/frontend.py (the same function is in src/Frontend.py).     *)
(*                                                                         *)
(* One call of the resolver is a sequence of steps: the import of the SNMP *)
(* library, the set-up of the session and the encoding of the MAC, and     *)
(* then one step per response of each of the four table walks.  The switch *)
(* is the environment: the responses it gives to a walk are chosen when    *)
(* they are first requested and recorded in `switch`, so that a later walk *)
(* of the same table receives the same responses until SwitchChange.       *)
(***************************************************************************)
EXTENDS Integers, Sequences, FiniteSets, TLC

\* Bound of the model: the calls of snmp_mac_to_port against the same tables
\* of the switch.
MaxCalls == 2

(***************************************************************************)
(* Strings are sequences of one-character strings.                         *)
(***************************************************************************)
\* s.endswith(t)
EndsWith(s, t) ==
    /\ Len(t) <= Len(s)
    /\ SubSeq(s, Len(s) - Len(t) + 1, Len(s)) = t

DigitChars == <<"0", "1", "2", "3", "4", "5", "6", "7", "8", "9">>

\* str(n) for an integer n
RECURSIVE Dec(_)
Dec(n) ==
    IF n < 0 THEN <<"-">> \o Dec(0 - n)
    ELSE IF n < 10 THEN <<DigitChars[n + 1]>>
    ELSE Dec(n \div 10) \o <<DigitChars[(n % 10) + 1]>>

\* ".".join(str(x) for x in xs)
RECURSIVE JoinDots(_)
JoinDots(xs) ==
    IF xs = <<>> THEN <<>>
    ELSE IF Len(xs) = 1 THEN Dec(xs[1])
    ELSE Dec(xs[1]) \o <<".">> \o JoinDots(Tail(xs))

\* The value of one character as a digit of the given base, -1 if it is none.
DigitValUpperOnly(c, base) ==
    LET v == CASE c = "0" -> 0 [] c = "1" -> 1 [] c = "2" -> 2 [] c = "3" -> 3
               [] c = "4" -> 4 [] c = "5" -> 5 [] c = "6" -> 6 [] c = "7" -> 7
               [] c = "8" -> 8 [] c = "9" -> 9
               [] c = "A" -> 10 [] c = "B" -> 11 [] c = "C" -> 12
               [] c = "D" -> 13 [] c = "E" -> 14 [] c = "F" -> 15
               [] OTHER -> -1
    IN IF v < base THEN v ELSE -1
DigitVal(c, base) ==
    LET v == CASE c = "0" -> 0 [] c = "1" -> 1 [] c = "2" -> 2 [] c = "3" -> 3
               [] c = "4" -> 4 [] c = "5" -> 5 [] c = "6" -> 6 [] c = "7" -> 7
               [] c = "8" -> 8 [] c = "9" -> 9
               [] c \in {"a", "A"} -> 10 [] c \in {"b", "B"} -> 11
               [] c \in {"c", "C"} -> 12 [] c \in {"d", "D"} -> 13
               [] c \in {"e", "E"} -> 14 [] c \in {"f", "F"} -> 15
               [] OTHER -> -1
    IN IF v < base THEN v ELSE -1

RECURSIVE DigitsValue(_, _)
DigitsValue(s, base) ==
    IF s = <<>> THEN 0
    ELSE DigitsValue(SubSeq(s, 1, Len(s) - 1), base) * base + DigitVal(s[Len(s)], base)

AllDigits(s, base) == s # <<>> /\ \A i \in 1..Len(s) : DigitVal(s[i], base) >= 0

\* int(s, base): [ok |-> FALSE] stands for the ValueError.  A sign is accepted as
\* Python accepts it.
PyInt(s, base) ==
    LET neg == s # <<>> /\ s[1] = "-"
        body == IF s # <<>> /\ s[1] \in {"-", "+"} THEN Tail(s) ELSE s
    IN IF AllDigits(body, base)
       THEN [ok |-> TRUE, v |-> IF neg THEN 0 - DigitsValue(body, base) ELSE DigitsValue(body, base)]
       ELSE [ok |-> FALSE, v |-> 0]

\* re.split(r"[:-]", mac): the groups between the separators, empty ones kept.
RECURSIVE ReSplit(_)
ReSplit(s) ==
    IF \A i \in 1..Len(s) : s[i] \notin {":", "-"} THEN <<s>>
    ELSE LET k == CHOOSE i \in 1..Len(s) :
                    /\ s[i] \in {":", "-"}
                    /\ \A j \in 1..(i - 1) : s[j] \notin {":", "-"}
         IN <<SubSeq(s, 1, k - 1)>> \o ReSplit(SubSeq(s, k + 1, Len(s)))

\* parts = [int(p, 16) for p in re.split(r"[:-]", mac)]
MacParts(m) ==
    LET groups == ReSplit(m)
        ints == [i \in 1..Len(groups) |-> PyInt(groups[i], 16)]
    IN IF \A i \in 1..Len(groups) : ints[i].ok
       THEN [ok |-> TRUE, parts |-> [i \in 1..Len(groups) |-> ints[i].v]]
       ELSE [ok |-> FALSE, parts |-> <<>>]

\* mac_str_to_oid_suffix: the dotted decimal string, or the ValueError of int().
mac_str_to_oid_suffix(m) ==
    LET p == MacParts(m) IN [ok |-> p.ok, s |-> JoinDots(p.parts)]

(***************************************************************************)
(* Python's None and truthiness: an optional value is <<>> or <<v>>.       *)
(***************************************************************************)
None == <<>>
Some(v) == <<v>>
TruthyIntNotNone(o) == o # None
TruthyInt(o) == o # None /\ o[1] # 0
TruthyStr(o) == o # None /\ o[1] # ""

(***************************************************************************)
(* Object identifiers are sequences of numbers.                            *)
(***************************************************************************)
fdb_oid_prefix == <<1, 3, 6, 1, 2, 1, 17, 4, 3, 1, 2>>
baseport_ifindex == <<1, 3, 6, 1, 2, 1, 17, 1, 4, 1, 2>>
ifdescr_prefix == <<1, 3, 6, 1, 2, 1, 2, 2, 1, 2>>
ifname_prefix == <<1, 3, 6, 1, 2, 1, 31, 1, 1, 1, 1>>

Tables == {"fdb", "bp", "ifname", "ifdescr"}

PrefixOf(t) ==
    CASE t = "fdb" -> fdb_oid_prefix
      [] t = "bp" -> baseport_ifindex
      [] t = "ifname" -> ifname_prefix
      [] t = "ifdescr" -> ifdescr_prefix

\* Lexicographic order of object identifiers, the order of a walk.
RECURSIVE LexLess(_, _)
LexLess(a, b) ==
    IF b = <<>> THEN FALSE
    ELSE IF a = <<>> THEN TRUE
    ELSE IF a[1] # b[1] THEN a[1] < b[1]
    ELSE LexLess(Tail(a), Tail(b))

(***************************************************************************)
(* The inputs of the model.                                                *)
(***************************************************************************)
\* The two stations of the forwarding table: 00:11:22:33:44:FF and
\* AA:BB:CC:DD:EE:FF.
StationA == <<170, 187, 204, 221, 238, 255>>
StationB == <<0, 17, 34, 51, 68, 255>>

MacUpperColon ==
    <<"A", "A", ":", "B", "B", ":", "C", "C", ":", "D", "D", ":", "E", "E", ":", "F", "F">>
MacLowerHyphen ==
    <<"a", "a", "-", "b", "b", "-", "c", "c", "-", "d", "d", "-", "e", "e", "-", "f", "f">>
MacOther ==
    <<"0", "0", ":", "1", "1", ":", "2", "2", ":", "3", "3", ":", "4", "4", ":", "F", "F">>
MacFiveGroups ==
    <<"B", "B", ":", "C", "C", ":", "D", "D", ":", "E", "E", ":", "F", "F">>
MacOneGroup == <<"F", "F">>
MacSevenGroups ==
    <<"0", "2", ":", "A", "A", ":", "B", "B", ":", "C", "C", ":", "D", "D", ":", "E", "E", ":", "F", "F">>
MacNonHex ==
    <<"G", "G", ":", "B", "B", ":", "C", "C", ":", "D", "D", ":", "E", "E", ":", "F", "F">>

MacInputs ==
    {MacUpperColon, MacLowerHyphen, MacOther, MacFiveGroups, MacOneGroup,
     MacSevenGroups, MacNonHex}

\* A MAC string of exactly 6 groups of hex digits.
HexChars ==
    {"0", "1", "2", "3", "4", "5", "6", "7", "8", "9",
     "a", "b", "c", "d", "e", "f", "A", "B", "C", "D", "E", "F"}

WellFormed(m) ==
    /\ Len(m) = 17
    /\ \A i \in 1..17 : IF i % 3 = 0 THEN m[i] \in {":", "-"} ELSE m[i] \in HexChars

\* The rows a table of the switch can hold: object identifier and the value as
\* val.prettyPrint() renders it.
FdbValues == {<<"1", "2">>, <<"0">>, <<"x">>}
BpValues == {<<"7">>, <<"0">>, <<"x">>}
IfValues(t, i) ==
    IF t = "ifname" THEN {IF i = 7 THEN "Gi1/0/7" ELSE "Gi1/0/8"} ELSE {"uplink", ""}

RowsOf(t) ==
    CASE t = "fdb" ->
           {[kind |-> "row", oid |-> fdb_oid_prefix \o m, val |-> v] :
                m \in {StationA, StationB}, v \in FdbValues}
      [] t = "bp" ->
           {[kind |-> "row", oid |-> Append(baseport_ifindex, p), val |-> v] :
                p \in {5, 12}, v \in BpValues}
      [] t \in {"ifname", "ifdescr"} ->
           UNION {{[kind |-> "row", oid |-> Append(PrefixOf(t), i), val |-> v] :
                      v \in IfValues(t, i)} : i \in {7, 8}}

\* What ends a walk: the end of the table, an error indication or error status
\* in the response, or an exception raised by the transport.
Ending(t, k) ==
    [kind |-> k, oid |-> <<>>, val |-> IF t \in {"ifname", "ifdescr"} THEN "" ELSE <<>>]
Endings(t) == {Ending(t, "end"), Ending(t, "err"), Ending(t, "raise")}

NoResult == [kind |-> "pending", ifIndex |-> None, ifName |-> None, ifDescr |-> None]
NoneResult == [kind |-> "None", ifIndex |-> None, ifName |-> None, ifDescr |-> None]
Raised == [kind |-> "exception", ifIndex |-> None, ifName |-> None, ifDescr |-> None]
Mapping(i, n, d) == [kind |-> "mapping", ifIndex |-> i, ifName |-> n, ifDescr |-> d]

VARIABLES
    snmpAvailable,  \* the import of pysnmp.hlapi succeeds in this runtime
    targetOk,       \* the transport target of the switch address can be built
    switch,         \* per table, the responses the switch has given to its walk
    pc,             \* where the call is
    mac,            \* mac_address of the call
    mac_suffix, fdb_port, ifindex, if_name, if_descr,   \* locals of the call
    pos,            \* responses of the current walk consumed so far
    engine,         \* an SnmpEngine was created in this call
    walks,          \* the tables whose walk was requested in this call, in order
    result,         \* what the call returned
    seen,           \* the calls returned since the switch last changed
    calls,          \* calls made since the switch last changed
    uiPc,           \* where the run of the dashboard script is
    snmp_enabled,   \* the toggle "Enable SNMP lookup"
    switch_ip,      \* the text input "Switch IP"
    base_net,       \* what get_network_status() gave: "ok" or "Error"
    rich,           \* the rows of get_richer_network_info()
    row,            \* the index in rich of the row of the loop
    cards,          \* the rows whose card was displayed in this run, in order
    lookups,        \* the rows whose lookup was called in this run, in order
    shown,          \* what the network section displayed besides the cards
    sections,       \* the sections after the network section run so far
    cpu, mem, disk, \* the arguments of overall_status
    overall,        \* what overall_status returned
    hcPc,           \* where run_local_health_check is
    hc_cpu, hc_mem, hc_disk,    \* its locals cpu, mem.percent, disk.percent
    hc_failed,      \* the psutil call that raised in it, "" if none did
    hc_return,      \* what it returned
    dashPc,         \* where the run of the script is, for the health dashboard
    trigger,        \* what started this run of the script
    auto_refresh,   \* the toggle "Enable auto-refresh"
    last_results,   \* st.session_state.last_results
    clicked,        \* "Run Health Check" was clicked in this session
    metrics,        \* the three indicators st.metric displayed in this run
    recs,           \* what the recommendations panel reported in this run
    chatPc,         \* where the run of the script is, for the chat tab
    api_key,        \* GEMINI_API_KEY is set
    user_input,     \* what st.chat_input returned in this run
    chat_msgs,      \* st.session_state.chat_msgs
    asked           \* the questions the chat tab received in this session

resolverVars ==
    <<snmpAvailable, targetOk, switch, pc, mac, mac_suffix, fdb_port, ifindex,
      if_name, if_descr, pos, engine, walks, result, seen, calls>>

uiVars ==
    <<uiPc, snmp_enabled, switch_ip, base_net, rich, row, cards, lookups, shown, sections>>

\* The variables of the resolver that its caller does not see.
resolverInside ==
    <<snmpAvailable, targetOk, switch, mac_suffix, fdb_port, ifindex, if_name,
      if_descr, pos, engine, walks, seen, calls>>

statusVars == <<cpu, mem, disk, overall>>

healthVars == <<hcPc, hc_cpu, hc_mem, hc_disk, hc_failed, hc_return>>

dashVars == <<dashPc, trigger, auto_refresh, last_results, clicked, metrics, recs>>

chatVars == <<chatPc, api_key, user_input, chat_msgs, asked>>

\* The variables the dashboard's network section does not touch.
besideUi == <<statusVars, healthVars, dashVars, chatVars>>

\* The variables the resolver does not touch.
outside == <<uiVars, statusVars, healthVars, dashVars, chatVars>>

vars == <<resolverVars, outside>>

\* overall_status is not being evaluated.
StatusIdle ==
    /\ cpu = <<>>
    /\ mem = <<>>
    /\ disk = <<>>
    /\ overall = ""

\* run_local_health_check is not running.
HealthIdle ==
    /\ hcPc = "idle"
    /\ hc_cpu = <<>>
    /\ hc_mem = <<>>
    /\ hc_disk = <<>>
    /\ hc_failed = ""
    /\ hc_return = <<>>

\* No run of the script for the health dashboard: the session state is as
\* lines 436-439 initialise it.
DashIdle ==
    /\ dashPc = "idle"
    /\ trigger = ""
    /\ auto_refresh = FALSE
    /\ last_results = <<>>
    /\ clicked = FALSE
    /\ metrics = <<>>
    /\ recs = <<>>

\* No run of the script for the chat tab.
ChatIdle ==
    /\ chatPc = "idle"
    /\ api_key = FALSE
    /\ user_input = <<>>
    /\ chat_msgs = <<>>
    /\ asked = 0

\* The dashboard script is not running.
UiIdle ==
    /\ uiPc = "idle"
    /\ snmp_enabled = FALSE
    /\ switch_ip = <<>>
    /\ base_net = "ok"
    /\ rich = <<>>
    /\ row = 0
    /\ cards = <<>>
    /\ lookups = <<>>
    /\ shown = <<>>
    /\ sections = <<>>

env == <<snmpAvailable, targetOk>>
locals == <<mac_suffix, fdb_port, ifindex, if_name, if_descr>>

Init ==
    /\ snmpAvailable \in BOOLEAN
    /\ targetOk \in BOOLEAN
    /\ switch = [t \in Tables |-> <<>>]
    /\ pc = "idle"
    /\ mac = <<>>
    /\ mac_suffix = <<>>
    /\ fdb_port = None
    /\ ifindex = None
    /\ if_name = None
    /\ if_descr = None
    /\ pos = 0
    /\ engine = FALSE
    /\ walks = <<>>
    /\ result = NoResult
    /\ seen = {}
    /\ calls = 0
    /\ UiIdle
    /\ StatusIdle
    /\ HealthIdle
    /\ DashIdle
    /\ ChatIdle

(***************************************************************************)
(* The switch and the transport under the walk nextCmd(...,                *)
(* lexicographicMode=False): response number k of the walk of table t.     *)
(* Rows come in increasing order of object identifier; an error or an      *)
(* exception ends the walk.                                                *)
(***************************************************************************)
Responses(t, k) ==
    IF k <= Len(switch[t]) THEN {switch[t][k]}
    ELSE IF k > 1 /\ switch[t][k - 1].kind # "row" THEN {}
    ELSE Endings(t) \cup
         {r \in RowsOf(t) : k > 1 => LexLess(switch[t][k - 1].oid, r.oid)}

Recorded(t, k, r) ==
    IF k <= Len(switch[t]) THEN switch ELSE [switch EXCEPT ![t] = Append(@, r)]

\* A walk starts with a new generator, at the first response.
WalkStartResumed(t) == Len(switch[t])
WalkStart(t) == 0

\* except Exception: return None  (the handler of the whole body)
ExceptPropagates == Raised
ExceptHandler == NoneResult

\* The call returns r: its locals are gone.
Return(r) ==
    /\ result' = r
    /\ pc' = "done"
    /\ seen' = seen \cup {[mac |-> mac, result |-> r, n |-> calls]}
    /\ mac_suffix' = <<>>
    /\ fdb_port' = None
    /\ ifindex' = None
    /\ if_name' = None
    /\ if_descr' = None
    /\ pos' = 0

\* The call goes on at p with these locals.
Goto(p, fp, ix, n, d, k) ==
    /\ pc' = p
    /\ fdb_port' = fp
    /\ ifindex' = ix
    /\ if_name' = n
    /\ if_descr' = d
    /\ pos' = k
    /\ UNCHANGED <<mac_suffix, result, seen>>

\* snmp_mac_to_port(switch_ip, community, mac_address) is called: with any MAC
\* when the tables of the switch are new, with the same MAC again after a call.
CallCached(m) ==
    /\ UNCHANGED outside
    /\ pc = "idle" \/ (pc = "done" /\ m = mac)
    /\ calls < MaxCalls
    /\ calls' = calls + 1
    /\ mac' = m
    /\ pc' = IF pc = "done" THEN "done" ELSE "import"
    /\ result' = IF pc = "done" THEN result ELSE NoResult
    /\ engine' = FALSE
    /\ walks' = <<>>
    /\ UNCHANGED <<env, switch, locals, pos, seen>>
Call(m) ==
    /\ UNCHANGED outside
    /\ pc = "idle" \/ (pc = "done" /\ m = mac)
    /\ calls < MaxCalls
    /\ calls' = calls + 1
    /\ mac' = m
    /\ pc' = "import"
    /\ result' = NoResult
    /\ engine' = FALSE
    /\ walks' = <<>>
    /\ UNCHANGED <<env, switch, locals, pos, seen>>

\* from pysnmp.hlapi import ...; except Exception: return None
ImportUnguarded ==
    /\ UNCHANGED outside
    /\ pc = "import"
    /\ pc' = "setup"
    /\ UNCHANGED <<locals, pos, result, seen>>
    /\ UNCHANGED <<env, switch, mac, engine, walks, calls>>
Import ==
    /\ UNCHANGED outside
    /\ pc = "import"
    /\ IF snmpAvailable
       THEN /\ pc' = "setup"
            /\ UNCHANGED <<locals, pos, result, seen>>
       ELSE Return(NoneResult)
    /\ UNCHANGED <<env, switch, mac, engine, walks, calls>>

\* The engine, the target and the encoding of the MAC, up to fdb_port = None.
Setup ==
    /\ UNCHANGED outside
    /\ pc = "setup"
    /\ engine' = TRUE
    /\ IF ~targetOk \/ ~mac_str_to_oid_suffix(mac).ok
       THEN Return(ExceptHandler)
       ELSE /\ mac_suffix' = mac_str_to_oid_suffix(mac).s
            /\ fdb_port' = None
            /\ pos' = WalkStart("fdb")
            /\ pc' = "fdb"
            /\ UNCHANGED <<ifindex, if_name, if_descr, result, seen>>
    /\ UNCHANGED <<env, switch, mac, walks, calls>>

\* One response of the walk of table t is requested and received.
Request(t, r) ==
    /\ r \in Responses(t, pos + 1)
    /\ switch' = Recorded(t, pos + 1, r)
    /\ walks' = IF t \in {walks[i] : i \in 1..Len(walks)} THEN walks ELSE Append(walks, t)

\* if not fdb_port: return None; else on to the base-port table
AfterFdbRetry(fp) ==
    IF ~TruthyInt(fp)
    THEN Goto("fdb", None, ifindex, if_name, if_descr, 0)
    ELSE Goto("bp", fp, None, if_name, if_descr, 0)
AfterFdb(fp) ==
    IF ~TruthyInt(fp)
    THEN Return(NoneResult)
    ELSE Goto("bp", fp, None, if_name, if_descr, WalkStart("bp"))

\* The forwarding-table entry matches the MAC: oid_str.endswith("." + mac_suffix)
FdbMatchAny(oid, suffix) == TRUE
FdbMatch(oid, suffix) == EndsWith(JoinDots(oid), <<".">> \o suffix)

\* One iteration of the walk of the forwarding table.
FdbStep ==
    /\ UNCHANGED outside
    /\ pc = "fdb"
    /\ \E r \in Responses("fdb", pos + 1) :
        /\ Request("fdb", r)
        /\ CASE r.kind = "raise" -> Return(ExceptHandler)
             [] r.kind \in {"end", "err"} -> AfterFdb(fdb_port)
             [] r.kind = "row" ->
                  LET fp == IF FdbMatch(r.oid, mac_suffix) /\ PyInt(r.val, 10).ok
                            THEN Some(PyInt(r.val, 10).v)
                            ELSE fdb_port
                  IN IF TruthyInt(fp)
                     THEN AfterFdb(fp)
                     ELSE Goto("fdb", fp, ifindex, if_name, if_descr, pos + 1)
    /\ UNCHANGED <<env, mac, engine, calls>>

\* if not ifindex: return None; else on to the interface tables
AfterBpFallback(ix) ==
    IF ~TruthyInt(ix)
    THEN Goto("ifname", fdb_port, fdb_port, None, None, 0)
    ELSE Goto("ifname", fdb_port, ix, None, None, 0)
AfterBpRetry(ix) ==
    IF ~TruthyInt(ix)
    THEN Goto("fdb", None, None, if_name, if_descr, 0)
    ELSE Goto("ifname", fdb_port, ix, None, None, 0)
AfterBp(ix) ==
    IF ~TruthyInt(ix)
    THEN Return(NoneResult)
    ELSE Goto("ifname", fdb_port, ix, None, None, WalkStart("ifname"))

\* base_port = int(str(oid).split(".")[-1]); base_port == fdb_port
BpMatchAny(oid, fp) == TRUE
BpMatch(oid, fp) == PyInt(Dec(oid[Len(oid)]), 10).v = fp[1]

\* One iteration of the walk of the base-port table.
BpStep ==
    /\ UNCHANGED outside
    /\ pc = "bp"
    /\ \E r \in Responses("bp", pos + 1) :
        /\ Request("bp", r)
        /\ CASE r.kind = "raise" -> Return(ExceptHandler)
             [] r.kind \in {"end", "err"} -> AfterBp(ifindex)
             [] r.kind = "row" ->
                  LET ix == IF BpMatch(r.oid, fdb_port) /\ PyInt(r.val, 10).ok
                            THEN Some(PyInt(r.val, 10).v)
                            ELSE ifindex
                  IN IF TruthyInt(ix)
                     THEN AfterBp(ix)
                     ELSE Goto("bp", fdb_port, ix, if_name, if_descr, pos + 1)
    /\ UNCHANGED <<env, mac, engine, calls>>

\* str(oid).endswith("." + str(ifindex))
IfMatch(oid, ix) == EndsWith(JoinDots(oid), <<".">> \o Dec(ix[1]))

\* One iteration of the walk of the interface-name table (prefix is
\* ifname_prefix); when the walk is over the loop goes on to ifdescr_prefix.
IfNameStepStopsOnError ==
    /\ UNCHANGED outside
    /\ pc = "ifname"
    /\ \E r \in Responses("ifname", pos + 1) :
        /\ Request("ifname", r)
        /\ CASE r.kind \in {"raise", "err"} -> Return(ExceptHandler)
             [] r.kind = "end" ->
                  Goto("ifdescr", fdb_port, ifindex, if_name, if_descr, 0)
             [] r.kind = "row" ->
                  LET n == IF IfMatch(r.oid, ifindex) THEN Some(r.val) ELSE if_name
                  IN Goto("ifname", fdb_port, ifindex, n, if_descr, pos + 1)
    /\ UNCHANGED <<env, mac, engine, calls>>
IfNameStep ==
    /\ UNCHANGED outside
    /\ pc = "ifname"
    /\ \E r \in Responses("ifname", pos + 1) :
        /\ Request("ifname", r)
        /\ CASE r.kind = "raise" -> Return(ExceptHandler)
             [] r.kind \in {"end", "err"} ->
                  Goto("ifdescr", fdb_port, ifindex, if_name, if_descr, WalkStart("ifdescr"))
             [] r.kind = "row" ->
                  LET n == IF IfMatch(r.oid, ifindex) THEN Some(r.val) ELSE if_name
                  IN IF TruthyStr(n) /\ TruthyStr(if_descr)
                     THEN Goto("ifdescr", fdb_port, ifindex, n, if_descr, WalkStart("ifdescr"))
                     ELSE Goto("ifname", fdb_port, ifindex, n, if_descr, pos + 1)
    /\ UNCHANGED <<env, mac, engine, calls>>

\* return {"ifIndex": ifindex, "ifName": if_name, "ifDescr": if_descr}
ReturnIndexOnly(ix, n, d) == Mapping(ix, None, None)
ReturnMapping(ix, n, d) == Mapping(ix, n, d)

\* One iteration of the walk of the interface-description table; when the
\* walk is over the mapping is returned.
IfDescrStep ==
    /\ UNCHANGED outside
    /\ pc = "ifdescr"
    /\ \E r \in Responses("ifdescr", pos + 1) :
        /\ Request("ifdescr", r)
        /\ CASE r.kind = "raise" -> Return(ExceptHandler)
             [] r.kind \in {"end", "err"} ->
                  Return(ReturnMapping(ifindex, if_name, if_descr))
             [] r.kind = "row" ->
                  LET d == IF IfMatch(r.oid, ifindex) THEN Some(r.val) ELSE if_descr
                  IN IF TruthyStr(if_name) /\ TruthyStr(d)
                     THEN Return(ReturnMapping(ifindex, if_name, d))
                     ELSE Goto("ifdescr", fdb_port, ifindex, if_name, d, pos + 1)
    /\ UNCHANGED <<env, mac, engine, calls>>

\* Between two calls the tables of the switch change: what it answers from
\* then on is open again.
SwitchChange ==
    /\ UNCHANGED outside
    /\ pc = "done"
    /\ switch' = [t \in Tables |-> <<>>]
    /\ seen' = {}
    /\ calls' = 0
    /\ pc' = "idle"
    /\ mac' = <<>>
    /\ result' = NoResult
    /\ engine' = FALSE
    /\ walks' = <<>>
    /\ UNCHANGED <<env, locals, pos>>

Next ==
    \/ \E m \in MacInputs : Call(m)
    \/ Import
    \/ Setup
    \/ FdbStep
    \/ BpStep
    \/ IfNameStep
    \/ IfDescrStep
    \/ SwitchChange

Spec == Init /\ [][Next]_vars

\* A call is synchronous: once made it runs, each request being answered by a
\* row, the end of the table, an error of the transport or an exception.
CallStep == Import \/ Setup \/ FdbStep \/ BpStep \/ IfNameStep \/ IfDescrStep

\* The steps of a call that wait for the import or for an answer to a request.
WaitStep == Import \/ FdbStep \/ BpStep \/ IfNameStep \/ IfDescrStep

\* The set-up of a call is straight-line code: the call does not stay in it.
\* (Setup is enabled exactly when pc = "setup" and every step of it leaves
\* that position, so this is what weak fairness of Setup gives.)
SetupCompletes == []<>(pc # "setup")

\* One call against each state of the tables.
NextFair ==
    \/ \E m \in MacInputs : pc = "idle" /\ Call(m)
    \/ CallStep
    \/ SwitchChange

FairSpec == Init /\ [][NextFair]_vars /\ WF_vars(WaitStep) /\ SetupCompletes

(***************************************************************************)
(* The encoding of the MAC on its own: mac_str_to_oid_suffix applied to    *)
(* the two stations written with every choice of separator between the     *)
(* groups and of upper or lower case for each group, and to the malformed  *)
(* strings of MacInputs.                                                   *)
(***************************************************************************)
HexUpper == <<"0", "1", "2", "3", "4", "5", "6", "7", "8", "9", "A", "B", "C", "D", "E", "F">>
HexLower == <<"0", "1", "2", "3", "4", "5", "6", "7", "8", "9", "a", "b", "c", "d", "e", "f">>

FormatOctet(n, upper) ==
    LET h == IF upper THEN HexUpper ELSE HexLower
    IN <<h[(n \div 16) + 1], h[(n % 16) + 1]>>

FormatMac(o, seps, upper) ==
    FormatOctet(o[1], upper[1]) \o <<seps[1]>> \o FormatOctet(o[2], upper[2]) \o <<seps[2]>> \o
    FormatOctet(o[3], upper[3]) \o <<seps[3]>> \o FormatOctet(o[4], upper[4]) \o <<seps[4]>> \o
    FormatOctet(o[5], upper[5]) \o <<seps[5]>> \o FormatOctet(o[6], upper[6])

Stations == {StationA, StationB}

EncodeInputs ==
    MacInputs \cup
    {FormatMac(o, seps, upper) :
        o \in Stations, seps \in [1..5 -> {":", "-"}], upper \in [1..6 -> BOOLEAN]}

InitMac ==
    /\ snmpAvailable = TRUE
    /\ targetOk = TRUE
    /\ switch = [t \in Tables |-> <<>>]
    /\ pc = "encode"
    /\ mac \in EncodeInputs
    /\ mac_suffix = <<>>
    /\ fdb_port = None
    /\ ifindex = None
    /\ if_name = None
    /\ if_descr = None
    /\ pos = 0
    /\ engine = FALSE
    /\ walks = <<>>
    /\ result = NoResult
    /\ seen = {}
    /\ calls = 0
    /\ UiIdle
    /\ StatusIdle
    /\ HealthIdle
    /\ DashIdle
    /\ ChatIdle

\* mac_suffix = mac_str_to_oid_suffix(mac_address)
Encode ==
    /\ UNCHANGED outside
    /\ pc = "encode"
    /\ IF mac_str_to_oid_suffix(mac).ok
       THEN /\ mac_suffix' = mac_str_to_oid_suffix(mac).s
            /\ pc' = "encoded"
       ELSE /\ pc' = "encode_error"
            /\ UNCHANGED mac_suffix
    /\ UNCHANGED <<env, switch, mac, fdb_port, ifindex, if_name, if_descr, pos,
                   engine, walks, result, seen, calls>>

SpecMac == InitMac /\ [][Encode]_vars

(***************************************************************************)
(* One run of the dashboard script over its network section: the cards of  *)
(* the interfaces, the SNMP lookup of each, and the sections that follow.  *)
(* A lookup is a call of snmp_mac_to_port; what it can return is what the  *)
(* calls of Spec return.                                                   *)
(***************************************************************************)
MaxIfaces == 2

\* str.strip(): leading and trailing blanks removed
RECURSIVE Strip(_)
Strip(s) ==
    IF s = <<>> THEN s
    ELSE IF Head(s) = " " THEN Strip(Tail(s))
    ELSE IF s[Len(s)] = " " THEN Strip(SubSeq(s, 1, Len(s) - 1))
    ELSE s

\* Truth value of a MAC of a row: None and "" are false.
TruthyMac(o) == o # None /\ o[1] # <<>>

SwitchIpInputs == {<<>>, <<" ", " ">>, <<" ", "1", "0", ".", "1", " ">>}

MacOfRowInputs == {None, Some(<<>>), Some(MacUpperColon)}

\* The rows of the interfaces that are up: one row per interface.
RichInputs ==
    UNION {[1..n -> {[Interface |-> k, MAC |-> m] : k \in 1..MaxIfaces, m \in MacOfRowInputs}] :
              n \in 0..MaxIfaces}

RichRows == {r \in RichInputs : \A k \in 1..Len(r) : r[k].Interface = k}

\* What a call of snmp_mac_to_port gives its caller.
ResolverReturnsOrRaises ==
    {NoneResult, Raised} \cup
    {Mapping(Some(7), n, d) :
        n \in {None} \cup {Some(v) : v \in IfValues("ifname", 7)},
        d \in {None} \cup {Some(v) : v \in IfValues("ifdescr", 7)}}
ResolverReturns ==
    {NoneResult} \cup
    {Mapping(Some(7), n, d) :
        n \in {None} \cup {Some(v) : v \in IfValues("ifname", 7)},
        d \in {None} \cup {Some(v) : v \in IfValues("ifdescr", 7)}}

\* x or '—'
OrDash(o) == IF TruthyStr(o) THEN o[1] ELSE "-"

\* if mapping: st.success(...) else: st.info("No SNMP mapping found ...")
ExpanderShowsSuccess(k, r) ==
    [row |-> k, kind |-> "success", ifIndex |-> r.ifIndex,
     ifName |-> OrDash(r.ifName), ifDescr |-> OrDash(r.ifDescr)]
ExpanderShows(k, r) ==
    IF r.kind = "mapping"
    THEN [row |-> k, kind |-> "success", ifIndex |-> r.ifIndex,
          ifName |-> OrDash(r.ifName), ifDescr |-> OrDash(r.ifDescr)]
    ELSE [row |-> k, kind |-> "info", ifIndex |-> None, ifName |-> "", ifDescr |-> ""]

ErrorShown == [row |-> 0, kind |-> "error", ifIndex |-> None, ifName |-> "", ifDescr |-> ""]
NoInterfacesShown == [row |-> 0, kind |-> "info", ifIndex |-> None, ifName |-> "", ifDescr |-> ""]

\* if snmp_enabled and switch_ip.strip() and row.get("MAC")
LookupWantedAlways(k) == TRUE
LookupWantedIgnoringToggle(k) == Strip(switch_ip) # <<>> /\ TruthyMac(rich[k].MAC)
LookupWanted(k) == snmp_enabled /\ Strip(switch_ip) # <<>> /\ TruthyMac(rich[k].MAC)

\* The row after row k of the loop "for row in rich".
NextRowSame(k) == k
NextRow(k) == k + 1

InitUI ==
    /\ snmpAvailable = TRUE
    /\ targetOk = TRUE
    /\ switch = [t \in Tables |-> <<>>]
    /\ pc = "idle"
    /\ mac = <<>>
    /\ mac_suffix = <<>>
    /\ fdb_port = None
    /\ ifindex = None
    /\ if_name = None
    /\ if_descr = None
    /\ pos = 0
    /\ engine = FALSE
    /\ walks = <<>>
    /\ result = NoResult
    /\ seen = {}
    /\ calls = 0
    /\ uiPc = "start"
    /\ snmp_enabled = FALSE
    /\ switch_ip = <<>>
    /\ base_net = "ok"
    /\ rich = <<>>
    /\ row = 0
    /\ cards = <<>>
    /\ lookups = <<>>
    /\ shown = <<>>
    /\ sections = <<>>
    /\ StatusIdle
    /\ HealthIdle
    /\ DashIdle
    /\ ChatIdle

\* The script runs, first or again, with the sidebar as the user left it.
ScriptRun ==
    /\ UNCHANGED besideUi
    /\ uiPc \in {"start", "rendered", "crashed"}
    /\ snmp_enabled' \in BOOLEAN
    /\ switch_ip' \in SwitchIpInputs
    /\ uiPc' = "network"
    /\ base_net' = "ok"
    /\ rich' = <<>>
    /\ row' = 0
    /\ cards' = <<>>
    /\ lookups' = <<>>
    /\ shown' = <<>>
    /\ sections' = <<>>
    /\ pc' = "idle"
    /\ mac' = <<>>
    /\ result' = NoResult
    /\ UNCHANGED resolverInside

\* base_net = get_network_status() or {}; an "Error" is displayed, otherwise
\* rich = get_richer_network_info() and the loop over its rows begins.
NetworkStatus ==
    /\ UNCHANGED besideUi
    /\ uiPc = "network"
    /\ \/ /\ base_net' = "Error"
          /\ shown' = Append(shown, ErrorShown)
          /\ uiPc' = "sampling"
          /\ UNCHANGED <<rich, row>>
       \/ /\ base_net' = "ok"
          /\ rich' \in RichRows
          /\ row' = 1
          /\ uiPc' = "card"
          /\ UNCHANGED shown
    /\ UNCHANGED <<snmp_enabled, switch_ip, cards, lookups, sections>>
    /\ UNCHANGED resolverVars

\* The card of the row is displayed; if the lookup is wanted, snmp_mac_to_port
\* is called with the MAC of the row.
Card ==
    /\ UNCHANGED besideUi
    /\ uiPc = "card"
    /\ row <= Len(rich)
    /\ cards' = Append(cards, row)
    /\ IF LookupWanted(row)
       THEN /\ lookups' = Append(lookups, row)
            /\ uiPc' = "lookup"
            /\ pc' = "import"
            /\ mac' = rich[row].MAC[1]
            /\ result' = NoResult
            /\ UNCHANGED row
       ELSE /\ row' = NextRow(row)
            /\ UNCHANGED <<lookups, uiPc, pc, mac, result>>
    /\ UNCHANGED <<snmp_enabled, switch_ip, base_net, rich, shown, sections>>
    /\ UNCHANGED resolverInside

\* snmp_mac_to_port returns and the expander shows the outcome; an exception
\* leaving the call would end the run of the script.
LookupReturn ==
    /\ UNCHANGED besideUi
    /\ uiPc = "lookup"
    /\ \E r \in ResolverReturns :
         /\ result' = r
         /\ pc' = "done"
         /\ IF r.kind = "exception"
            THEN /\ uiPc' = "crashed"
                 /\ UNCHANGED <<shown, row>>
            ELSE /\ shown' = Append(shown, ExpanderShows(row, r))
                 /\ row' = NextRow(row)
                 /\ uiPc' = "card"
    /\ UNCHANGED <<snmp_enabled, switch_ip, base_net, rich, cards, lookups, sections>>
    /\ UNCHANGED <<resolverInside, mac>>

\* The loop is over: if not rich: st.info("No active network interfaces ...")
CardsDone ==
    /\ UNCHANGED besideUi
    /\ uiPc = "card"
    /\ row > Len(rich)
    /\ shown' = IF rich = <<>> THEN Append(shown, NoInterfacesShown) ELSE shown
    /\ uiPc' = "sampling"
    /\ UNCHANGED <<snmp_enabled, switch_ip, base_net, rich, row, cards, lookups, sections>>
    /\ UNCHANGED resolverVars

\* The sections after the network section, in the order of the script.
SectionAfter(p) ==
    CASE p = "sampling" -> "export" [] p = "export" -> "chat" [] p = "chat" -> "rendered"

LaterSection ==
    /\ UNCHANGED besideUi
    /\ uiPc \in {"sampling", "export", "chat"}
    /\ sections' = Append(sections, uiPc)
    /\ uiPc' = SectionAfter(uiPc)
    /\ UNCHANGED <<snmp_enabled, switch_ip, base_net, rich, row, cards, lookups, shown>>
    /\ UNCHANGED resolverVars

NextUI ==
    \/ ScriptRun
    \/ NetworkStatus
    \/ Card
    \/ LookupReturn
    \/ CardsDone
    \/ LaterSection

SpecUI == InitUI /\ [][NextUI]_vars

(***************************************************************************)
(* overall_status(cpu, mem, disk) on its own.  A percentage is held in     *)
(* tenths, the resolution psutil reports and the dashboard displays; an    *)
(* argument that is not a number is None.                                  *)
(***************************************************************************)
Tenths == 10

CriticalCpuMem == 85
CriticalDisk == 90
StressCpuMem == 70
StressDisk == 80

\* value >= threshold
Above(v, t) == v > t * Tenths
AtLeast(v, t) == v >= t * Tenths

\* a or b or c over comparisons of <<value, threshold>>, left to right: the
\* comparison of a value that is not a number raises, unless an earlier one
\* was true.
RECURSIVE OrChain(_)
OrChain(tests) ==
    IF tests = <<>> THEN "false"
    ELSE IF Head(tests)[1] = None THEN "raise"
    ELSE IF AtLeast(Head(tests)[1][1], Head(tests)[2]) THEN "true"
    ELSE OrChain(Tail(tests))

overall_status(c, m, d) ==
    LET critical == OrChain(<<<<c, CriticalCpuMem>>, <<m, CriticalCpuMem>>, <<d, CriticalDisk>>>>)
        stress == OrChain(<<<<c, StressCpuMem>>, <<m, StressCpuMem>>, <<d, StressDisk>>>>)
    IN IF critical = "raise" THEN "Status Unavailable"
       ELSE IF critical = "true" THEN "Critical Issues Detected"
       ELSE IF stress = "raise" THEN "Status Unavailable"
       ELSE IF stress = "true" THEN "System Under Stress"
       ELSE "System Healthy"

\* Percentages in tenths, on and next to the thresholds.
Percentages == {0, 699, 700, 799, 800, 849, 850, 899, 900, 1000}

StatusInputs == {None} \cup {Some(v) : v \in Percentages}

\* The resolver is not in a call.
ResolverIdle ==
    /\ snmpAvailable = TRUE
    /\ targetOk = TRUE
    /\ switch = [t \in Tables |-> <<>>]
    /\ pc = "idle"
    /\ mac = <<>>
    /\ mac_suffix = <<>>
    /\ fdb_port = None
    /\ ifindex = None
    /\ if_name = None
    /\ if_descr = None
    /\ pos = 0
    /\ engine = FALSE
    /\ walks = <<>>
    /\ result = NoResult
    /\ seen = {}
    /\ calls = 0

InitStatus ==
    /\ ResolverIdle
    /\ UiIdle
    /\ HealthIdle
    /\ DashIdle
    /\ ChatIdle
    /\ cpu \in StatusInputs
    /\ mem \in StatusInputs
    /\ disk \in StatusInputs
    /\ overall = ""

\* overall_status(cpu, mem, disk) is called and returns.
OverallStatus ==
    /\ overall = ""
    /\ overall' = overall_status(cpu, mem, disk)
    /\ UNCHANGED <<cpu, mem, disk>>
    /\ UNCHANGED <<resolverVars, uiVars, healthVars, dashVars, chatVars>>

SpecStatus == InitStatus /\ [][OverallStatus]_vars

(***************************************************************************)
(* run_local_health_check(): the three psutil calls, each of which may     *)
(* raise, the dictionary of the results, and the handler of the body.      *)
(***************************************************************************)
MetricKeys == {"CPU Usage", "Memory Usage", "Disk Usage"}

\* results = {"CPU Usage": cpu, "Memory Usage": mem.percent, "Disk Usage": disk.percent}
HealthResults(c, m, d) ==
    [k \in MetricKeys |->
        CASE k = "CPU Usage" -> c [] k = "Memory Usage" -> m [] k = "Disk Usage" -> d]

\* except Exception as e: ...; return {"Error": str(e)}
HealthExceptPartial(e) ==
    [k \in {"Error"} \cup (IF hc_cpu # None THEN {"CPU Usage"} ELSE {}) |->
        IF k = "Error" THEN e ELSE hc_cpu[1]]
HealthExcept(e) == [k \in {"Error"} |-> e]

InitHealth ==
    /\ ResolverIdle
    /\ UiIdle
    /\ StatusIdle
    /\ HealthIdle
    /\ DashIdle
    /\ ChatIdle

\* run_local_health_check() is called.
HealthCall ==
    /\ hcPc \in {"idle", "returned"}
    /\ hcPc' = "cpu"
    /\ hc_cpu' = None
    /\ hc_mem' = None
    /\ hc_disk' = None
    /\ hc_failed' = ""
    /\ hc_return' = <<>>
    /\ UNCHANGED <<resolverVars, uiVars, statusVars, dashVars, chatVars>>

\* cpu = psutil.cpu_percent(interval=1)
CollectCpu ==
    /\ hcPc = "cpu"
    /\ \/ /\ hc_cpu' \in {Some(v) : v \in Percentages}
          /\ hcPc' = "mem"
          /\ UNCHANGED <<hc_failed, hc_return>>
       \/ /\ hc_failed' = "cpu_percent"
          /\ hc_return' = HealthExcept("cpu_percent")
          /\ hcPc' = "returned"
          /\ UNCHANGED hc_cpu
    /\ UNCHANGED <<hc_mem, hc_disk>>
    /\ UNCHANGED <<resolverVars, uiVars, statusVars, dashVars, chatVars>>

\* mem = psutil.virtual_memory()
CollectMem ==
    /\ hcPc = "mem"
    /\ \/ /\ hc_mem' \in {Some(v) : v \in Percentages}
          /\ hcPc' = "disk"
          /\ UNCHANGED <<hc_failed, hc_return>>
       \/ /\ hc_failed' = "virtual_memory"
          /\ hc_return' = HealthExcept("virtual_memory")
          /\ hcPc' = "returned"
          /\ UNCHANGED hc_mem
    /\ UNCHANGED <<hc_cpu, hc_disk>>
    /\ UNCHANGED <<resolverVars, uiVars, statusVars, dashVars, chatVars>>

\* disk = psutil.disk_usage('/')
CollectDisk ==
    /\ hcPc = "disk"
    /\ \/ /\ hc_disk' \in {Some(v) : v \in Percentages}
          /\ hcPc' = "results"
          /\ UNCHANGED <<hc_failed, hc_return>>
       \/ /\ hc_failed' = "disk_usage"
          /\ hc_return' = HealthExcept("disk_usage")
          /\ hcPc' = "returned"
          /\ UNCHANGED hc_disk
    /\ UNCHANGED <<hc_cpu, hc_mem>>
    /\ UNCHANGED <<resolverVars, uiVars, statusVars, dashVars, chatVars>>

\* results = {...}; logging.info(...); return results
ReturnResults ==
    /\ hcPc = "results"
    /\ hc_return' = HealthResults(hc_cpu[1], hc_mem[1], hc_disk[1])
    /\ hcPc' = "returned"
    /\ UNCHANGED <<hc_cpu, hc_mem, hc_disk, hc_failed>>
    /\ UNCHANGED <<resolverVars, uiVars, statusVars, dashVars, chatVars>>

NextHealth ==
    \/ HealthCall
    \/ CollectCpu
    \/ CollectMem
    \/ CollectDisk
    \/ ReturnResults

SpecHealth == InitHealth /\ [][NextHealth]_vars

(***************************************************************************)
(* The health dashboard of tab1 and the recommendations panel: a run of    *)
(* the script from the sidebar to the panel, with the session state kept   *)
(* between the runs.  The network, sampling and export sections between    *)
(* the metrics and the auto-refresh do not touch this state.               *)
(***************************************************************************)
\* What run_local_health_check() returns: the three percentages or an error.
HealthReturns ==
    {HealthResults(c, m, d) : c \in Percentages, m \in Percentages, d \in Percentages}
    \cup {HealthExcept(e) : e \in {"cpu_percent", "virtual_memory", "disk_usage"}}

\* st.session_state.last_results or {"CPU Usage": 0, "Memory Usage": 0,
\* "Disk Usage": 0}: None is false, a dictionary with a key is true.
OrZeros(r) == IF DOMAIN r = {} THEN HealthResults(0, 0, 0) ELSE r

\* results.get(key, 0)
GetOrNone(d, key) == IF key \in DOMAIN d THEN Some(d[key]) ELSE None
Get(d, key) == IF key \in DOMAIN d THEN Some(d[key]) ELSE Some(0)

\* The thresholds status_color is called with for the CPU and the memory, and
\* for the disk.
CpuMemThresholds == <<70, 85>>
DiskThresholds == <<80, 90>>

\* status_color(value, thresholds): the colour of the indicator and the value
\* it prints; a value that float() rejects counts as 0.0.
status_colorAbove(value, thresholds) ==
    LET v == IF value = None THEN 0 ELSE value[1]
    IN IF Above(v, thresholds[2]) THEN [color |-> "red", value |-> v]
       ELSE IF Above(v, thresholds[1]) THEN [color |-> "orange", value |-> v]
       ELSE [color |-> "green", value |-> v]
status_color(value, thresholds) ==
    LET v == IF value = None THEN 0 ELSE value[1]
    IN IF AtLeast(v, thresholds[2]) THEN [color |-> "red", value |-> v]
       ELSE IF AtLeast(v, thresholds[1]) THEN [color |-> "orange", value |-> v]
       ELSE [color |-> "green", value |-> v]

\* The thresholds of the recommendations panel.
HighCpu == 80
HighMem == 80
HighDisk == 85

\* if cpu >= 80 / if mem >= 80 / if disk >= 85
ReportsHighBelow(v, t) == ~AtLeast(v[1], t)
ReportsHigh(v, t) == AtLeast(v[1], t)

\* The metrics for which the panel shows "High ... Usage Detected".
HighUsage(current) ==
    {k \in MetricKeys :
        ReportsHigh(Get(current, k),
                    CASE k = "CPU Usage" -> HighCpu
                      [] k = "Memory Usage" -> HighMem
                      [] k = "Disk Usage" -> HighDisk)}

\* run_now = st.button("Run Health Check"): true in the run the click started.
run_nowAlways == TRUE
run_now == trigger = "click"

\* What can start a run: the session opens; the button "Run Health Check" is
\* clicked; another widget changes; st.rerun() of the auto-refresh.
Triggers ==
    CASE dashPc = "start" -> {"open"}
      [] dashPc = "rerun" -> {"auto", "click", "widget"}
      [] OTHER -> {"click", "widget"}

InitDash ==
    /\ ResolverIdle
    /\ UiIdle
    /\ StatusIdle
    /\ HealthIdle
    /\ ChatIdle
    /\ dashPc = "start"
    /\ trigger = ""
    /\ auto_refresh = FALSE
    /\ last_results = <<>>
    /\ clicked = FALSE
    /\ metrics = <<>>
    /\ recs = <<>>

\* The script runs from the top: the sidebar gives run_now and auto_refresh,
\* and the session state is kept from the run before.
DashRun ==
    /\ dashPc \in {"start", "rendered", "rerun"}
    /\ trigger' \in Triggers
    /\ auto_refresh' \in (IF trigger' = "widget" THEN BOOLEAN ELSE {auto_refresh})
    /\ clicked' = (clicked \/ trigger' = "click")
    /\ dashPc' = "check"
    /\ metrics' = <<>>
    /\ recs' = <<>>
    /\ cpu' = <<>>
    /\ mem' = <<>>
    /\ disk' = <<>>
    /\ overall' = ""
    /\ UNCHANGED last_results
    /\ UNCHANGED <<resolverVars, uiVars, healthVars, chatVars>>

\* if run_now: results = run_local_health_check();
\*             st.session_state.last_results = results
RunCheck ==
    /\ dashPc = "check"
    /\ IF run_now
       THEN last_results' \in HealthReturns
       ELSE UNCHANGED last_results
    /\ dashPc' = "status"
    /\ UNCHANGED <<trigger, auto_refresh, clicked, metrics, recs>>
    /\ UNCHANGED <<resolverVars, uiVars, statusVars, healthVars, chatVars>>

\* results = last_results or {...}; st.info(overall_status(results.get(...), ...))
ShowStatus ==
    /\ dashPc = "status"
    /\ LET results == OrZeros(last_results)
       IN /\ cpu' = Get(results, "CPU Usage")
          /\ mem' = Get(results, "Memory Usage")
          /\ disk' = Get(results, "Disk Usage")
    /\ overall' = overall_status(cpu', mem', disk')
    /\ dashPc' = "metrics"
    /\ UNCHANGED <<trigger, auto_refresh, last_results, clicked, metrics, recs>>
    /\ UNCHANGED <<resolverVars, uiVars, healthVars, chatVars>>

\* The three st.metric(..., status_color(results.get(...), thresholds)).
ShowMetrics ==
    /\ dashPc = "metrics"
    /\ LET results == OrZeros(last_results)
       IN metrics' =
             [k \in MetricKeys |->
                 status_color(Get(results, k),
                              IF k = "Disk Usage" THEN DiskThresholds ELSE CpuMemThresholds)]
    /\ dashPc' = "refresh"
    /\ UNCHANGED <<trigger, auto_refresh, last_results, clicked, recs>>
    /\ UNCHANGED <<resolverVars, uiVars, statusVars, healthVars, chatVars>>

\* if auto_refresh: time.sleep(...); st.rerun(), which ends this run; otherwise
\* the script goes on to the chat tab and the recommendations panel.
AutoRefresh ==
    /\ dashPc = "refresh"
    /\ dashPc' = IF auto_refresh THEN "rerun" ELSE "recs"
    /\ UNCHANGED <<trigger, auto_refresh, last_results, clicked, metrics, recs>>
    /\ UNCHANGED <<resolverVars, uiVars, statusVars, healthVars, chatVars>>

\* current = last_results or {...}; the panel reports the metrics in high usage.
Recommendations ==
    /\ dashPc = "recs"
    /\ recs' = Some(HighUsage(OrZeros(last_results)))
    /\ dashPc' = "rendered"
    /\ UNCHANGED <<trigger, auto_refresh, last_results, clicked, metrics>>
    /\ UNCHANGED <<resolverVars, uiVars, statusVars, healthVars, chatVars>>

NextDash ==
    \/ DashRun
    \/ RunCheck
    \/ ShowStatus
    \/ ShowMetrics
    \/ AutoRefresh
    \/ Recommendations

SpecDash == InitDash /\ [][NextDash]_vars

(***************************************************************************)
(* The chat tab: a run of the script reaches it unless the auto-refresh    *)
(* has ended the run before; with an API key it draws the history and the  *)
(* chat input, and a submitted question is appended, sent to the model and *)
(* its reply appended.                                                     *)
(***************************************************************************)
MaxSubmits == 3

\* reply_text: response.text; "I responded, but couldn't parse the reply.";
\* f"Sorry, I couldn't reach the AI service: {e}"
Replies == {"text", "unparsed", "unreachable"}

InitChat ==
    /\ ResolverIdle
    /\ UiIdle
    /\ StatusIdle
    /\ HealthIdle
    /\ dashPc = "idle"
    /\ trigger = ""
    /\ auto_refresh = FALSE
    /\ last_results = <<>>
    /\ clicked = FALSE
    /\ metrics = <<>>
    /\ recs = <<>>
    /\ chatPc = "start"
    /\ api_key = FALSE
    /\ user_input = <<>>
    /\ chat_msgs = <<>>
    /\ asked = 0

dashBesideRefresh == <<dashPc, trigger, last_results, clicked, metrics, recs>>

\* The script runs from the top.  st.chat_input gives a question only in the
\* run its submission started, and only an input drawn by the run before can
\* be submitted.
ChatRun ==
    /\ chatPc \in {"start", "rendered", "rerun", "nokey"}
    /\ auto_refresh' \in BOOLEAN
    /\ api_key' \in BOOLEAN
    /\ user_input' \in {None} \cup
          (IF chatPc = "rendered" /\ asked < MaxSubmits THEN {Some("q")} ELSE {})
    /\ chatPc' = "tab1"
    /\ UNCHANGED <<chat_msgs, asked>>
    /\ UNCHANGED <<resolverVars, uiVars, statusVars, healthVars, dashBesideRefresh>>

\* End of tab1: if auto_refresh: ...; st.rerun() ends the run before tab2.
ChatAutoRefresh ==
    /\ chatPc = "tab1"
    /\ chatPc' = IF auto_refresh THEN "rerun" ELSE "tab2"
    /\ UNCHANGED <<api_key, user_input, chat_msgs, asked>>
    /\ UNCHANGED <<resolverVars, uiVars, statusVars, healthVars, dashVars>>

\* with tab2: no API key: st.error; otherwise the history and the chat input
\* are drawn and, if user_input, the question is appended and displayed.
ChatTab ==
    /\ chatPc = "tab2"
    /\ IF ~api_key
       THEN /\ chatPc' = "nokey"
            /\ UNCHANGED <<chat_msgs, asked>>
       ELSE IF user_input # None
            THEN /\ chat_msgs' = Append(chat_msgs, <<"user", user_input[1]>>)
                 /\ asked' = asked + 1
                 /\ chatPc' = "asked"
            ELSE /\ chatPc' = "rendered"
                 /\ UNCHANGED <<chat_msgs, asked>>
    /\ UNCHANGED <<api_key, user_input>>
    /\ UNCHANGED <<resolverVars, uiVars, statusVars, healthVars, dashVars>>

\* try: response = client.models.generate_content(...); reply_text = ...
\* except Exception as e: reply_text = ...; then the reply is appended.
ChatReplyDropsFailure ==
    /\ chatPc = "asked"
    /\ \E r \in Replies :
         chat_msgs' = IF r = "unreachable" THEN chat_msgs
                      ELSE Append(chat_msgs, <<"assistant", r>>)
    /\ chatPc' = "rendered"
    /\ UNCHANGED <<api_key, user_input, asked>>
    /\ UNCHANGED <<resolverVars, uiVars, statusVars, healthVars, dashVars>>
ChatReply ==
    /\ chatPc = "asked"
    /\ \E r \in Replies : chat_msgs' = Append(chat_msgs, <<"assistant", r>>)
    /\ chatPc' = "rendered"
    /\ UNCHANGED <<api_key, user_input, asked>>
    /\ UNCHANGED <<resolverVars, uiVars, statusVars, healthVars, dashVars>>

NextChat ==
    \/ ChatRun
    \/ ChatAutoRefresh
    \/ ChatTab
    \/ ChatReply

SpecChat == InitChat /\ [][NextChat]_vars

(***************************************************************************)
(* What the claims speak of, read off the tables of the switch.            *)
(***************************************************************************)
Last(q) == q[Len(q)]

RowsIdx(t) == {k \in 1..Len(switch[t]) : switch[t][k].kind = "row"}

\* The numbers xs are the last components of the object identifier.
OidEndsWith(oid, xs) ==
    /\ Len(xs) < Len(oid)
    /\ \A k \in 1..Len(xs) : oid[Len(oid) - Len(xs) + k] = xs[k]

\* The forwarding-table rows whose MAC part is the encoding of the queried MAC.
MatchingFdb ==
    LET m == MacParts(mac)
    IN IF m.ok THEN {k \in RowsIdx("fdb") : OidEndsWith(switch["fdb"][k].oid, m.parts)}
       ELSE {}

\* A value that is an integer other than 0.
GoodValue(v) == PyInt(v, 10).ok /\ PyInt(v, 10).v # 0

Min(S) == CHOOSE x \in S : \A y \in S : x <= y

\* The base port stage 1 finds, 0 if it finds none.
Stage1Port ==
    LET good == {k \in MatchingFdb : GoodValue(switch["fdb"][k].val)}
    IN IF good = {} THEN 0 ELSE PyInt(switch["fdb"][Min(good)].val, 10).v

MatchingBp(p) == {k \in RowsIdx("bp") : Last(switch["bp"][k].oid) = p}

\* The interface index stage 2 finds for base port p, 0 if it finds none.
Stage2Index(p) ==
    LET good == {k \in MatchingBp(p) : GoodValue(switch["bp"][k].val)}
    IN IF p = 0 \/ good = {} THEN 0 ELSE PyInt(switch["bp"][Min(good)].val, 10).v

\* The rows of an interface table for interface index i.
IfRows(t, i) == {k \in RowsIdx(t) : Last(switch[t][k].oid) = i}

\* The value of the row of table t for interface index i, None if there is none.
IfValueOf(t, i) ==
    IF IfRows(t, i) = {} THEN None ELSE Some(switch[t][Min(IfRows(t, i))].val)

Ended(t, kinds) == Len(switch[t]) > 0 /\ Last(switch[t]).kind \in kinds

Walked == {walks[k] : k \in 1..Len(walks)}

\* A number of groups other than 6, or a group that is not hex digits.
Malformed(m) ==
    LET groups == ReSplit(m)
    IN \/ Len(groups) # 6
       \/ \E g \in 1..Len(groups) :
            \/ groups[g] = <<>>
            \/ \E k \in 1..Len(groups[g]) : groups[g][k] \notin HexChars

(***************************************************************************)
(* The claims.                                                             *)
(***************************************************************************)

\* C1: every call returns a value, the mapping or None, whatever the switch
\* and the transport do; no exception reaches the caller.
C1_ResolveIsTotal ==
    /\ result.kind \in {"pending", "None", "mapping"}
    /\ pc = "done" => result.kind \in {"None", "mapping"}
    /\ pc # "done" => result = NoResult

C1_Witness ==
    /\ pc = "done"
    /\ \E t \in Tables : Ended(t, {"raise"})
    /\ result = NoneResult

C3_TransportErrorGivesNotFound ==
    (pc = "done" /\ \E t \in Walked : Ended(t, {"err", "raise"})) => result = NoneResult

\* C4: a malformed MAC yields an InvalidInput outcome, never not-found and
\* never a mapping.
C4_MalformedMacIsInvalidInput ==
    (pc = "done" /\ snmpAvailable /\ targetOk /\ Malformed(mac)) =>
        result.kind = "InvalidInput"

\* C5: when stages 1 and 2 give interface index i (and no walk of stage 3
\* raises), the call returns the mapping of i with the name of the
\* interface-name row of i, None if there is no such row, and likewise the
\* description.
C5_AbsentNameOrDescriptionKeepsMapping ==
    LET i == Stage2Index(Stage1Port)
    IN (pc = "done" /\ i # 0 /\ ~Ended("ifname", {"raise"}) /\ ~Ended("ifdescr", {"raise"})) =>
           result = Mapping(Some(i), IfValueOf("ifname", i), IfValueOf("ifdescr", i))

C5_Witness ==
    /\ pc = "done"
    /\ mac = MacUpperColon
    /\ Stage1Port = 12
    /\ switch["ifdescr"] = <<Ending("ifdescr", "end")>>
    /\ result = Mapping(Some(7), Some("Gi1/0/7"), None)

\* C6: with no forwarding-table row for the queried MAC the call returns
\* not-found and walks none of the other tables.
C6_NoFdbEntryGivesNotFound ==
    (pc = "done" /\ MatchingFdb = {}) =>
        /\ result = NoneResult
        /\ Walked \subseteq {"fdb"}

C6_Witness ==
    /\ pc = "done"
    /\ WellFormed(mac)
    /\ Len(switch["fdb"]) = 2
    /\ Ended("fdb", {"end"})
    /\ MatchingFdb = {}
    /\ result = NoneResult

\* C7: with a base port p from stage 1 and no base-port row of index p the call
\* returns not-found.
C7_NoBasePortRowGivesNotFound ==
    (pc = "done" /\ Stage1Port # 0 /\ MatchingBp(Stage1Port) = {}) =>
        /\ result = NoneResult
        /\ Walked = {"fdb", "bp"}

C7_Witness ==
    /\ pc = "done"
    /\ Stage1Port = 12
    /\ Len(switch["bp"]) = 2
    /\ Ended("bp", {"end"})
    /\ MatchingBp(12) = {}
    /\ result = NoneResult

\* C8: without the SNMP library every call returns not-found, creates no engine
\* and sends no request.
C8_NoLibraryIsSideEffectFree ==
    ~snmpAvailable =>
        /\ engine = FALSE
        /\ walks = <<>>
        /\ switch = [t \in Tables |-> <<>>]
        /\ pc \notin {"setup", "fdb", "bp", "ifname", "ifdescr"}
        /\ pc = "done" => result = NoneResult

C8_Witness ==
    /\ ~snmpAvailable
    /\ pc = "done"
    /\ calls = 2
    /\ result = NoneResult

\* C9: the encoding of a well-formed MAC does not depend on the separators nor
\* on the case of the hex digits: it is the dotted decimal of the octets.
ToLower(c) ==
    CASE c = "A" -> "a" [] c = "B" -> "b" [] c = "C" -> "c"
      [] c = "D" -> "d" [] c = "E" -> "e" [] c = "F" -> "f"
      [] OTHER -> c

Canonical(m) == [k \in 1..Len(m) |-> IF m[k] = "-" THEN ":" ELSE ToLower(m[k])]

CanonicalOf(o) == FormatMac(o, [k \in 1..5 |-> ":"], [k \in 1..6 |-> FALSE])

StationAEncoded ==
    <<"1", "7", "0", ".", "1", "8", "7", ".", "2", "0", "4", ".",
      "2", "2", "1", ".", "2", "3", "8", ".", "2", "5", "5">>

C9_EncodingIgnoresSeparatorAndCase ==
    (pc \in {"encoded", "encode_error"} /\ WellFormed(mac)) =>
        /\ pc = "encoded"
        /\ \E o \in Stations : Canonical(mac) = CanonicalOf(o)
        /\ \A o \in Stations : Canonical(mac) = CanonicalOf(o) => mac_suffix = JoinDots(o)
        /\ Canonical(mac) = Canonical(MacUpperColon) => mac_suffix = StationAEncoded

C9_Witness ==
    /\ pc = "encoded"
    /\ mac = MacLowerHyphen
    /\ mac_suffix = StationAEncoded

\* C10: two calls with the same MAC against the same tables return the same
\* result.
C10_RepeatedCallSameResult ==
    \A a, b \in seen : a.mac = b.mac => a.result = b.result

C10_Witness ==
    /\ pc = "done"
    /\ result.kind = "mapping"
    /\ \E a, b \in seen : a.n # b.n /\ a.mac = b.mac

\* C11: at every stage the first matching entry in walk order wins: the base
\* port held by the call is the value of the first forwarding-table row whose
\* suffix is the encoding of the MAC, the interface index is the value of the
\* first base-port row whose index is that base port, the name and the
\* description are those of the first rows ending in the interface index; no
\* later matching row takes the place of an earlier one.
C11_FirstMatchWins ==
    /\ TruthyInt(fdb_port) =>
          /\ MatchingFdb # {}
          /\ PyInt(switch["fdb"][Min(MatchingFdb)].val, 10) = [ok |-> TRUE, v |-> fdb_port[1]]
    /\ TruthyInt(ifindex) =>
          /\ MatchingBp(fdb_port[1]) # {}
          /\ PyInt(switch["bp"][Min(MatchingBp(fdb_port[1]))].val, 10) =
                 [ok |-> TRUE, v |-> ifindex[1]]
    /\ if_name # None =>
          if_name = Some(switch["ifname"][Min(IfRows("ifname", ifindex[1]))].val)
    /\ if_descr # None =>
          if_descr = Some(switch["ifdescr"][Min(IfRows("ifdescr", ifindex[1]))].val)

\* The place of a position of the call in the order of the code.
StageRank(p) ==
    CASE p = "idle" -> 0 [] p = "import" -> 1 [] p = "setup" -> 2 [] p = "fdb" -> 3
      [] p = "bp" -> 4 [] p = "ifname" -> 5 [] p = "ifdescr" -> 6 [] p = "done" -> 7

WalkStages == {"fdb", "bp", "ifname", "ifdescr"}

\* C12: within one call the stages run as a linear pipeline: the call only
\* moves forward; the base-port walk starts only from the forwarding-table walk
\* with a base port, the walk of the interface names only from the base-port
\* walk with an interface index, the walk of the descriptions only after that
\* of the names; a walk that goes on takes the next response and is never
\* started again, so each table is walked at most once; a call that leaves
\* stage 1 or stage 2 without a value returns not-found.
C12_StagesRunAsLinearPipeline ==
    [][/\ (pc' # pc /\ pc' \notin {"idle", "import"}) => StageRank(pc') > StageRank(pc)
       /\ (pc' = "fdb" /\ pc # "fdb") => (pc = "setup" /\ walks' = <<>>)
       /\ (pc' = "bp" /\ pc # "bp") =>
             (pc = "fdb" /\ TruthyInt(fdb_port') /\ walks' = <<"fdb">>)
       /\ (pc' = "ifname" /\ pc # "ifname") =>
             (pc = "bp" /\ TruthyInt(ifindex') /\ fdb_port' = fdb_port
                        /\ walks' = <<"fdb", "bp">>)
       /\ (pc' = "ifdescr" /\ pc # "ifdescr") =>
             (pc = "ifname" /\ ifindex' = ifindex /\ walks' = <<"fdb", "bp", "ifname">>)
       /\ (pc' \in WalkStages /\ pc' # pc) => pos' = 0
       /\ (pc' \in WalkStages /\ pc' = pc) => pos' = pos + 1
       /\ (pc \in {"fdb", "bp"} /\ pc' = "done") => result' = NoneResult
      ]_vars

C12_Witness ==
    /\ pc = "done"
    /\ walks = <<"fdb", "bp", "ifname", "ifdescr">>
    /\ Len(switch["fdb"]) = 2
    /\ result.kind = "mapping"

\* What a call for the MAC returns, read off the tables as the switch answers
\* them now.
ResultFromTables ==
    LET i == Stage2Index(Stage1Port)
    IN IF ~snmpAvailable \/ ~targetOk \/ ~MacParts(mac).ok THEN NoneResult
       ELSE IF \E t \in Tables : Ended(t, {"raise"}) THEN NoneResult
       ELSE IF i = 0 THEN NoneResult
       ELSE Mapping(Some(i), IfValueOf("ifname", i), IfValueOf("ifdescr", i))

\* C13: the resolver keeps nothing between calls: every call, the first or a
\* later one for the same MAC, begins with no base port, interface index, name
\* or description, walks the forwarding table first, from its first row, and
\* returns what the tables of the switch give at that call.
C13_NothingKeptBetweenCalls ==
    /\ pc \in {"idle", "import", "setup", "done"} =>
          /\ locals = <<<<>>, None, None, None, None>>
          /\ pos = 0
    /\ pc \in {"import", "setup"} => (walks = <<>> /\ result = NoResult)
    /\ pc = "done" =>
          /\ result = ResultFromTables
          /\ (snmpAvailable /\ targetOk /\ MacParts(mac).ok) =>
                (Len(walks) >= 1 /\ walks[1] = "fdb")

C13_Witness ==
    /\ pc = "done"
    /\ calls = 2
    /\ walks = <<"fdb", "bp", "ifname", "ifdescr">>
    /\ result = Mapping(Some(7), Some("Gi1/0/7"), Some("uplink"))

(***************************************************************************)
(* The claims about the dashboard, read off one run of the script.         *)
(***************************************************************************)
\* What the expander of row k displayed in this run.
ShownFor(k) == {j \in 1..Len(shown) : shown[j].row = k}

\* The lookups of this run that have returned.
Returned ==
    {j \in 1..Len(lookups) : j < Len(lookups) \/ uiPc # "lookup"}

\* C14: for each lookup the dashboard shows exactly one of two things: the
\* mapping, as a success with the interface index, name and description the
\* call returned, when the call returned a mapping; or the information "no
\* mapping found" when it returned not-found. A not-found is never shown as an
\* error nor as a mapping.
C14_LookupShownAsMappingOrInfo ==
    /\ \A j \in 1..Len(lookups) :
          /\ Cardinality(ShownFor(lookups[j])) = IF j \in Returned THEN 1 ELSE 0
          /\ \A e \in ShownFor(lookups[j]) : shown[e].kind \in {"success", "info"}
    /\ (uiPc = "card" /\ pc = "done") =>
          LET e == shown[Len(shown)]
          IN /\ e.row = lookups[Len(lookups)]
             /\ result.kind = "mapping" =>
                   e = [row |-> e.row, kind |-> "success", ifIndex |-> result.ifIndex,
                        ifName |-> IF result.ifName \in {None, Some("")} THEN "-"
                                   ELSE result.ifName[1],
                        ifDescr |-> IF result.ifDescr \in {None, Some("")} THEN "-"
                                    ELSE result.ifDescr[1]]
             /\ result = NoneResult =>
                   e = [row |-> e.row, kind |-> "info", ifIndex |-> None,
                        ifName |-> "", ifDescr |-> ""]
             /\ result.kind \in {"mapping", "None"}

C14_Witness ==
    /\ uiPc = "rendered"
    /\ Len(lookups) = 2
    /\ shown[1].kind = "info"
    /\ shown[2].kind = "success"
    /\ shown[2].ifDescr = "-"

\* The rows 1..n in the order of display.
RowsUpTo(n) == [k \in 1..n |-> k]

\* Those of the rows 1..n that have a MAC, in the order of display.
RECURSIVE RowsWithMacUpTo(_)
RowsWithMacUpTo(n) ==
    IF n = 0 THEN <<>>
    ELSE IF rich[n].MAC \notin {None, Some(<<>>)}
         THEN Append(RowsWithMacUpTo(n - 1), n)
         ELSE RowsWithMacUpTo(n - 1)

\* The lookups a run makes among the rows 1..n: those of the rows with a MAC
\* when the toggle is on and the switch address is not blank, none otherwise.
LookupsUpTo(n) ==
    IF snmp_enabled /\ \E k \in 1..Len(switch_ip) : switch_ip[k] # " "
    THEN RowsWithMacUpTo(n)
    ELSE <<>>

\* C15: a lookup that fails does not block the rest of the run: no lookup ends
\* the run of the script; after each lookup, whatever it returned, the loop is
\* at the next row with the cards of all rows before it displayed; a run that
\* is not over can always take its next step; and when the run is over every
\* row has its card, every row that wanted a lookup had it, and the sampling,
\* export and chat sections have run.
C15_FailedLookupDoesNotBlockRender ==
    /\ uiPc # "crashed"
    /\ uiPc \notin {"idle", "rendered"} => ENABLED NextUI
    /\ uiPc = "lookup" => (cards = RowsUpTo(row) /\ lookups = LookupsUpTo(row))
    /\ uiPc = "card" => (cards = RowsUpTo(row - 1) /\ lookups = LookupsUpTo(row - 1))
    /\ (uiPc \in {"sampling", "export", "chat", "rendered"} /\ base_net = "ok") =>
          /\ cards = RowsUpTo(Len(rich))
          /\ lookups = LookupsUpTo(Len(rich))
          /\ Cardinality({j \in 1..Len(shown) : shown[j].row # 0}) = Len(lookups)
    /\ uiPc = "rendered" => sections = <<"sampling", "export", "chat">>

C15_Witness ==
    /\ uiPc = "rendered"
    /\ lookups = <<1, 2>>
    /\ shown[1].kind = "info"
    /\ shown[2].kind = "info"
    /\ cards = <<1, 2>>
    /\ sections = <<"sampling", "export", "chat">>

\* C16: every call terminates: whatever rows, errors and exceptions the walks
\* meet, a call that has begun returns a result.
C16_EveryCallTerminates ==
    (pc \in {"import", "setup", "fdb", "bp", "ifname", "ifdescr"}) ~> (pc = "done")

C16_Witness ==
    /\ pc = "done"
    /\ Len(switch["fdb"]) = 2
    /\ Len(switch["bp"]) = 2
    /\ Len(switch["ifname"]) = 3
    /\ Ended("ifname", {"err"})
    /\ Len(switch["ifdescr"]) = 3
    /\ Ended("ifdescr", {"end"})

\* C17: a malformed MAC is reported at once: a call whose MAC has a wrong
\* number of groups or a group that is not hex digits returns without having
\* requested any walk.
C17_MalformedMacReturnsBeforeAnyWalk ==
    (pc \in {"import", "setup", "fdb", "bp", "ifname", "ifdescr", "done"} /\ Malformed(mac)) =>
        (walks = <<>> /\ switch = [t \in Tables |-> <<>>])

\* The lookups of a run are made one after the other in the order of display:
\* the rows looked up increase, all lookups but the one in flight have returned
\* and shown their outcome, and a call is in flight only at the lookup of the
\* current row.
LookupsSequential ==
    /\ \A i, j \in 1..Len(lookups) : i < j => lookups[i] < lookups[j]
    /\ Cardinality({j \in 1..Len(shown) : shown[j].row # 0}) =
          Len(lookups) - (IF uiPc = "lookup" THEN 1 ELSE 0)
    /\ uiPc = "lookup" => (lookups # <<>> /\ lookups[Len(lookups)] = row /\ pc = "import")
    /\ (uiPc \notin {"lookup", "idle"}) => pc \in {"idle", "done"}

\* C18 as stated: in one run the lookup is called once for every displayed
\* interface, one after the other in the order of display.
C18_OneLookupPerDisplayedInterface ==
    /\ LookupsSequential
    /\ uiPc = "lookup" => lookups = RowsUpTo(row)
    /\ uiPc = "card" => lookups = RowsUpTo(row - 1)
    /\ uiPc \in {"sampling", "export", "chat", "rendered"} => lookups = cards

\* C18, amended: in one run the lookup is called at most once for a displayed
\* interface: once for each interface that has a MAC when the SNMP toggle is on
\* and the switch address is not blank, for no interface otherwise; the calls
\* are made one after the other in the order of display, the next one only
\* after the previous one has returned.
C18_OneLookupPerEligibleInterface ==
    /\ LookupsSequential
    /\ uiPc = "lookup" => lookups = LookupsUpTo(row)
    /\ uiPc = "card" => lookups = LookupsUpTo(row - 1)
    /\ (uiPc \in {"sampling", "export", "chat", "rendered"} /\ base_net = "ok") =>
          lookups = LookupsUpTo(Len(rich))
    /\ base_net = "Error" => lookups = <<>>

C18_Witness ==
    /\ uiPc = "rendered"
    /\ Len(rich) = 2
    /\ rich[1].MAC = None
    /\ cards = <<1, 2>>
    /\ lookups = <<2>>

\* C19: overall_status of three percentages is "critical" exactly when the CPU
\* or the memory is at 85 or more or the disk at 90 or more; otherwise "under
\* stress" exactly when the CPU or the memory is at 70 or more or the disk at
\* 80 or more; otherwise "healthy". A value exactly on a threshold belongs to
\* the more severe level.
C19_OverallStatusThresholds ==
    (overall # "" /\ cpu # None /\ mem # None /\ disk # None) =>
        LET c == cpu[1]
            m == mem[1]
            d == disk[1]
            critical == c >= 850 \/ m >= 850 \/ d >= 900
            stress == c >= 700 \/ m >= 700 \/ d >= 800
        IN /\ overall = "Critical Issues Detected" <=> critical
           /\ overall = "System Under Stress" <=> (~critical /\ stress)
           /\ overall = "System Healthy" <=> (~critical /\ ~stress)
           /\ (c = 850 \/ m = 850 \/ d = 900) => overall = "Critical Issues Detected"
           /\ (c = 700 \/ m = 700 \/ d = 800) =>
                 overall \in {"System Under Stress", "Critical Issues Detected"}

C19_Witness ==
    /\ overall = "System Under Stress"
    /\ cpu = Some(0)
    /\ mem = Some(849)
    /\ disk = Some(800)

\* C20: run_local_health_check never raises: it returns either the dictionary
\* with exactly the keys "CPU Usage", "Memory Usage" and "Disk Usage", holding
\* the three collected values, or, when the collection of a metric failed, a
\* dictionary with the single key "Error"; never a mix of the two nor a part
\* of the metrics.
C20_HealthCheckReturnsMetricsOrError ==
    /\ hcPc \in {"idle", "cpu", "mem", "disk", "results", "returned"}
    /\ hcPc # "returned" => (hc_return = <<>> /\ hc_failed = "")
    /\ hcPc = "returned" =>
          /\ DOMAIN hc_return \in {{"CPU Usage", "Memory Usage", "Disk Usage"}, {"Error"}}
          /\ hc_failed = "" =>
                /\ DOMAIN hc_return = {"CPU Usage", "Memory Usage", "Disk Usage"}
                /\ hc_return["CPU Usage"] = hc_cpu[1]
                /\ hc_return["Memory Usage"] = hc_mem[1]
                /\ hc_return["Disk Usage"] = hc_disk[1]
          /\ hc_failed # "" => DOMAIN hc_return = {"Error"}

C20_Witness ==
    /\ hcPc = "returned"
    /\ hc_failed = "disk_usage"
    /\ hc_cpu = Some(700)
    /\ hc_mem = Some(850)
    /\ DOMAIN hc_return = {"Error"}

\* C21: a mapping never has the interface index 0: a matching forwarding-table
\* row whose value is 0 or not an integer, and a matching base-port row whose
\* value is 0 or not an integer, count as no match: the walk goes on after
\* such a row, and with no other matching row the call returns not-found.
C21_ZeroOrNonIntegerValueIsNoMatch ==
    /\ result.kind = "mapping" => (result.ifIndex # None /\ result.ifIndex[1] # 0)
    /\ pc = "done" =>
          LET fdbRows == MatchingFdb
              badFdb == {k \in fdbRows : ~GoodValue(switch["fdb"][k].val)}
              p == IF badFdb = fdbRows THEN 0 ELSE Stage1Port
              bpRows == IF p = 0 THEN {} ELSE MatchingBp(p)
              badBp == {k \in bpRows : ~GoodValue(switch["bp"][k].val)}
          IN /\ \A k \in badFdb : k < Len(switch["fdb"])
             /\ \A k \in badBp : k < Len(switch["bp"])
             /\ badFdb = fdbRows => (result = NoneResult /\ Walked \subseteq {"fdb"})
             /\ (p # 0 /\ badBp = bpRows) =>
                   (result = NoneResult /\ Walked = {"fdb", "bp"})

C21_Witness ==
    /\ pc = "done"
    /\ WellFormed(mac)
    /\ Stage1Port = 12
    /\ switch["bp"] = <<[kind |-> "row", oid |-> Append(baseport_ifindex, 5), val |-> <<"7">>],
                        [kind |-> "row", oid |-> Append(baseport_ifindex, 12), val |-> <<"0">>],
                        Ending("bp", "end")>>
    /\ result = NoneResult

C23_LookupOnlyWhenEnabledAddressedAndMac ==
    /\ \A j \in 1..Len(lookups) :
          /\ snmp_enabled
          /\ \E i \in 1..Len(switch_ip) : switch_ip[i] # " "
          /\ rich[lookups[j]].MAC \notin {None, Some(<<>>)}
    /\ (uiPc \notin {"idle", "start"} /\ pc # "idle") =>
          /\ lookups # <<>>
          /\ mac = rich[Last(lookups)].MAC[1]
    /\ base_net = "Error" => (lookups = <<>> /\ cards = <<>> /\ pc = "idle")

C23_Witness ==
    /\ uiPc = "rendered"
    /\ snmp_enabled
    /\ switch_ip = <<" ", "1", "0", ".", "1", " ">>
    /\ Len(rich) = 2
    /\ rich[1].MAC = Some(<<>>)
    /\ rich[2].MAC = Some(MacUpperColon)
    /\ lookups = <<2>>
    /\ pc = "done"

\* The sections of a run that come after the overall status was displayed,
\* and those that come after the three indicators were displayed.
StatusDisplayed == dashPc \in {"metrics", "refresh", "rerun", "recs", "rendered"}
MetricsDisplayed == dashPc \in {"refresh", "rerun", "recs", "rendered"}

\* C24: a health check that fails is kept as last_results, the dictionary
\* {"Error": ...} as it was returned, and the dashboard then displays the
\* overall status "System Healthy" and the CPU, the memory and the disk as
\* green indicators of 0.0%: neither "Status Unavailable" nor any error.
C24_FailedCheckShownAsHealthyZeros ==
    "Error" \in DOMAIN last_results =>
        /\ clicked
        /\ \E e \in {"cpu_percent", "virtual_memory", "disk_usage"} :
              last_results = HealthExcept(e)
        /\ StatusDisplayed =>
              (overall = "System Healthy" /\ cpu = Some(0) /\ mem = Some(0) /\ disk = Some(0))
        /\ MetricsDisplayed =>
              \A k \in MetricKeys : metrics[k] = [color |-> "green", value |-> 0]

C24_Witness ==
    /\ dashPc = "rendered"
    /\ trigger = "click"
    /\ last_results = HealthExcept("disk_usage")
    /\ overall = "System Healthy"
    /\ metrics["Disk Usage"] = [color |-> "green", value |-> 0]

\* C25: last_results changes only in a run started by a click on "Run Health
\* Check", at the call of the health check: until the first click it is None
\* and the dashboard displays 0 for the three metrics, and every other run,
\* the reruns of the auto-refresh included, leaves it as it was.
C25_LastResultsChangeOnlyOnClick ==
    /\ [](~clicked =>
            /\ last_results = None
            /\ StatusDisplayed => (cpu = Some(0) /\ mem = Some(0) /\ disk = Some(0))
            /\ MetricsDisplayed => \A k \in MetricKeys : metrics[k].value = 0)
    /\ [][last_results' # last_results => (trigger = "click" /\ dashPc = "check")]_vars
    /\ [][(dashPc = "check" /\ trigger # "click") => last_results' = last_results]_vars

C25_Witness ==
    /\ dashPc = "rerun"
    /\ trigger = "auto"
    /\ last_results = HealthResults(850, 0, 0)
    /\ metrics["CPU Usage"] = [color |-> "red", value |-> 850]

\* C26: the chat history only grows and stays paired: a question that the
\* chat tab receives appends one user message and then one assistant message,
\* the error text when the AI call fails, so the history alternates user,
\* assistant and between two runs has twice as many messages as questions
\* were received; only a run with an API key, not ended by the auto-refresh
\* and with a submitted question, appends anything.
C26_ChatHistoryGrowsInPairs ==
    /\ [](/\ \A i \in 1..Len(chat_msgs) :
               chat_msgs[i][1] = (IF i % 2 = 1 THEN "user" ELSE "assistant")
          /\ Len(chat_msgs) = 2 * asked - (IF chatPc = "asked" THEN 1 ELSE 0))
    /\ [][/\ Len(chat_msgs') >= Len(chat_msgs)
          /\ SubSeq(chat_msgs', 1, Len(chat_msgs)) = chat_msgs]_vars
    /\ [][chat_msgs' # chat_msgs => (api_key /\ ~auto_refresh /\ user_input # None)]_vars

C26_Witness ==
    /\ chatPc = "rendered"
    /\ chat_msgs = <<<<"user", "q">>, <<"assistant", "unreachable">>,
                     <<"user", "q">>, <<"assistant", "text">>>>

\* C27: the overall status is the worst of the three indicators displayed in
\* the same run: "critical" exactly when an indicator is red, "under stress"
\* exactly when none is red and one is orange, "healthy" exactly when the
\* three are green.
C27_OverallStatusIsWorstIndicator ==
    MetricsDisplayed =>
        LET colors == {metrics[k].color : k \in MetricKeys}
        IN /\ overall = "Critical Issues Detected" <=> "red" \in colors
           /\ overall = "System Under Stress" <=> ("red" \notin colors /\ "orange" \in colors)
           /\ overall = "System Healthy" <=> colors = {"green"}

C27_Witness ==
    /\ MetricsDisplayed
    /\ last_results = HealthResults(699, 700, 799)
    /\ metrics["CPU Usage"].color = "green"
    /\ metrics["Memory Usage"].color = "orange"
    /\ metrics["Disk Usage"].color = "green"
    /\ overall = "System Under Stress"

\* C28: when the recommendations panel reports high usage for a metric, the
\* overall status displayed in the same run, from the same last_results, is
\* not "System Healthy".
C28_HighUsageImpliesNotHealthy ==
    (recs # None /\ recs[1] # {}) =>
        (dashPc = "rendered" /\ overall \in {"System Under Stress", "Critical Issues Detected"})

C28_Witness ==
    /\ dashPc = "rendered"
    /\ recs = Some({"Disk Usage"})
    /\ last_results = HealthResults(799, 799, 850)
    /\ overall = "System Under Stress"

====
